---- MODULE Spec2Model ----
(***************************************************************************)
(* Model of batcher.py (Example, Batch, Batcher) and of test.py            *)
(* (_scatter_nd).  Token lines are sequences of tokens, ids are naturals,  *)
(* numpy arrays are sequences of rows.                                     *)
(***************************************************************************)
EXTENDS Integers, Sequences, FiniteSets, TLC

VARIABLES
    fx,            \* lines of <data_path>.x.txt (articles), a sequence of token lines
    fy,            \* lines of <data_path>.y.txt (abstracts)
    posx,          \* number of lines already read from fdx
    posy,          \* number of lines already read from fdy
    hps,           \* hyperparameters: mode, batch_size, max_enc_steps, max_dec_steps, pointer_gen
    single_pass,   \* Batcher._single_pass
    batches,       \* Batcher.batches
    pc,            \* position of the running code
    last,          \* the Batch most recently yielded by pair_iter / built by Batch(...)
    yielded,       \* history: the (article, abstract) pairs of all batches yielded so far
    examples,      \* the Example objects handed to Batch(...), as they are on the heap
    args,          \* arguments of the function call under check
    ret            \* its return value

vars == <<fx, fy, posx, posy, hps, single_pass, batches, pc, last, yielded,
          examples, args, ret>>

\* ------------------------------------------------------------------ bounds
MaxEncSteps == 2
MaxDecSteps == 2
MaxBatchSize == 2
MaxLines == 18
ShortFile == 3
ShuffleExact == 3
MaxVsize == 2

\* ------------------------------------------------------- program constants
BucketFactor == 16

\* ------------------------------------------------------------- vocabulary
PAD_ID == 0
UNK_ID == 1
SOS_ID == 2
EOS_ID == 3
VocabWords == <<"a", "b">>
FirstWordId == 4

vsize == FirstWordId + Len(VocabWords)

IndexOf(s, w) == CHOOSE i \in 1..Len(s) : s[i] = w
InSeq(s, w) == \E i \in 1..Len(s) : s[i] = w

word2id(w) == IF InSeq(VocabWords, w) THEN FirstWordId + IndexOf(VocabWords, w) - 1
              ELSE UNK_ID

IsAscii(tok) == tok # "e_acute"
remove_nonascii(line) == SelectSeq(line, IsAscii)

RECURSIVE article2idsFrom(_, _, _, _)
article2idsFrom(words, i, ids, oovs) ==
    IF i > Len(words) THEN [ids |-> ids, oovs |-> oovs]
    ELSE LET w == words[i] IN
         IF word2id(w) = UNK_ID
         THEN LET oovs2 == IF InSeq(oovs, w) THEN oovs ELSE Append(oovs, w)
              IN article2idsFrom(words, i + 1,
                                 Append(ids, vsize + IndexOf(oovs2, w) - 1), oovs2)
         ELSE article2idsFrom(words, i + 1, Append(ids, word2id(w)), oovs)

article2ids(article_words) == article2idsFrom(article_words, 1, <<>>, <<>>)

abstract2ids(abstract_words, article_oovs) ==
    [i \in 1..Len(abstract_words) |->
        LET w == abstract_words[i] IN
        IF word2id(w) = UNK_ID
        THEN IF InSeq(article_oovs, w) THEN vsize + IndexOf(article_oovs, w) - 1
             ELSE UNK_ID
        ELSE word2id(w)]

\* ------------------------------------------------------------ python lists
Min(a, b) == IF a < b THEN a ELSE b
Take(s, n) == SubSeq(s, 1, Min(n, Len(s)))               \* s[:n], n >= 0
Fill(n, v) == [i \in 1..n |-> v]
PadTo(s, max_len, pad_id) ==                             \* while len(s) < max_len: s.append(pad_id)
    IF Len(s) < max_len THEN s \o Fill(max_len - Len(s), pad_id) ELSE s
MaxOf(S) == CHOOSE m \in S : \A n \in S : n <= m         \* max(...) of a non-empty collection

\* ---------------------------------------------------------------- Example
get_dec_inp_targ_seqs_keep_target(sequence, max_len, start_id, stop_id) ==
    LET inp == <<start_id>> \o sequence IN
    IF Len(inp) > max_len
    THEN [inp |-> Take(inp, max_len), target |-> sequence]
    ELSE [inp |-> inp, target |-> Append(sequence, stop_id)]

get_dec_inp_targ_seqs_stop_always(sequence, max_len, start_id, stop_id) ==
    LET inp == <<start_id>> \o sequence IN
    IF Len(inp) > max_len
    THEN [inp |-> Take(inp, max_len),
          target |-> Append(Take(sequence, max_len - 1), stop_id)]
    ELSE [inp |-> inp, target |-> Append(sequence, stop_id)]

get_dec_inp_targ_seqs(sequence, max_len, start_id, stop_id) ==
    LET inp == <<start_id>> \o sequence IN
    IF Len(inp) > max_len
    THEN [inp |-> Take(inp, max_len), target |-> Take(sequence, max_len)]
    ELSE [inp |-> inp, target |-> Append(sequence, stop_id)]

\* Example.__init__; the attributes that exist only in pointer_gen mode are <<>> otherwise
ExampleInit(article, abstract_sentences, h) ==
    LET start_decoding == SOS_ID
        stop_decoding == EOS_ID
        article_words == IF Len(article) > h.max_enc_steps
                         THEN Take(article, h.max_enc_steps) ELSE article
        abstract_words == abstract_sentences
        abs_ids == [i \in 1..Len(abstract_words) |-> word2id(abstract_words[i])]
        r1 == get_dec_inp_targ_seqs(abs_ids, h.max_dec_steps, start_decoding, stop_decoding)
        a2i == article2ids(article_words)
        abs_ids_extend_vocab == abstract2ids(abstract_words, a2i.oovs)
        r2 == get_dec_inp_targ_seqs(abs_ids_extend_vocab, h.max_dec_steps,
                                    start_decoding, stop_decoding)
    IN [enc_len |-> Len(article_words),
        enc_input |-> [i \in 1..Len(article_words) |-> word2id(article_words[i])],
        dec_input |-> r1.inp,
        target |-> IF h.pointer_gen THEN r2.target ELSE r1.target,
        dec_len |-> Len(r1.inp),
        enc_input_extend_vocab |-> IF h.pointer_gen THEN a2i.ids ELSE <<>>,
        article_oovs |-> IF h.pointer_gen THEN a2i.oovs ELSE <<>>,
        original_article |-> article,
        original_abstract |-> abstract_sentences]

pad_decoder_inp_targ(ex, max_len, pad_id) ==
    [ex EXCEPT !.dec_input = PadTo(@, max_len, pad_id),
               !.target = PadTo(@, max_len, pad_id)]

pad_encoder_input(ex, max_len, pad_id, pointer_gen) ==
    [ex EXCEPT !.enc_input = PadTo(@, max_len, pad_id),
               !.enc_input_extend_vocab =
                   IF pointer_gen THEN PadTo(@, max_len, pad_id) ELSE @]

\* ------------------------------------------------------------------ Batch
\* numpy: a[i, :] = row  (a row of another length raises, a row of length 1 is broadcast)
RowFits(row, width) == Len(row) = width \/ Len(row) = 1
AssignRow(row, width) == IF Len(row) = width THEN row ELSE Fill(width, row[1])
Zeros(n) == Fill(n, 0)

EncLens(example_list) == {example_list[i].enc_len : i \in 1..Len(example_list)}

\* the Example objects after the padding loop of init_encoder_seq
PadEncoder(example_list, h, pad_id) ==
    [i \in 1..Len(example_list) |->
        pad_encoder_input(example_list[i], MaxOf(EncLens(example_list)), pad_id, h.pointer_gen)]

init_encoder_seq_raises(example_list, h, pad_id) ==
    \/ example_list = <<>>                               \* max() of an empty list
    \/ Len(example_list) > h.batch_size                  \* index out of bounds
    \/ \E i \in 1..Len(example_list) :
          LET ex == PadEncoder(example_list, h, pad_id)[i]
              w == MaxOf(EncLens(example_list)) IN
          \/ ~RowFits(ex.enc_input, w)
          \/ h.pointer_gen /\ ~RowFits(ex.enc_input_extend_vocab, w)

init_encoder_seq_padded_lens(example_list, h, pad_id) ==
    LET max_enc_seq_len == MaxOf(EncLens(example_list))
        n == Len(example_list)
        padded == PadEncoder(example_list, h, pad_id)
    IN [enc_batch |-> [i \in 1..h.batch_size |->
                          IF i <= n THEN AssignRow(padded[i].enc_input, max_enc_seq_len)
                          ELSE Zeros(max_enc_seq_len)],
        enc_lens |-> [i \in 1..h.batch_size |->
                          IF i <= n THEN Len(padded[i].enc_input) ELSE 0],
        max_art_oovs |-> IF h.pointer_gen
                         THEN MaxOf({Len(padded[i].article_oovs) : i \in 1..n}) ELSE 0,
        art_oovs |-> IF h.pointer_gen THEN [i \in 1..n |-> padded[i].article_oovs] ELSE <<>>,
        enc_batch_extend_vocab |->
            IF h.pointer_gen
            THEN [i \in 1..h.batch_size |->
                     IF i <= n THEN AssignRow(padded[i].enc_input_extend_vocab, max_enc_seq_len)
                     ELSE Zeros(max_enc_seq_len)]
            ELSE <<>>]

\* Batch.init_encoder_seq: the attributes it sets (those of pointer_gen mode are 0 / <<>> otherwise)
init_encoder_seq(example_list, h, pad_id) ==
    LET max_enc_seq_len == MaxOf(EncLens(example_list))
        n == Len(example_list)
        padded == PadEncoder(example_list, h, pad_id)
    IN [enc_batch |-> [i \in 1..h.batch_size |->
                          IF i <= n THEN AssignRow(padded[i].enc_input, max_enc_seq_len)
                          ELSE Zeros(max_enc_seq_len)],
        enc_lens |-> [i \in 1..h.batch_size |->
                          IF i <= n THEN padded[i].enc_len ELSE 0],
        max_art_oovs |-> IF h.pointer_gen
                         THEN MaxOf({Len(padded[i].article_oovs) : i \in 1..n}) ELSE 0,
        art_oovs |-> IF h.pointer_gen THEN [i \in 1..n |-> padded[i].article_oovs] ELSE <<>>,
        enc_batch_extend_vocab |->
            IF h.pointer_gen
            THEN [i \in 1..h.batch_size |->
                     IF i <= n THEN AssignRow(padded[i].enc_input_extend_vocab, max_enc_seq_len)
                     ELSE Zeros(max_enc_seq_len)]
            ELSE <<>>]

\* the Example objects after the padding loop of init_decoder_seq
PadDecoder(example_list, h, pad_id) ==
    [i \in 1..Len(example_list) |->
        pad_decoder_inp_targ(example_list[i], h.max_dec_steps, pad_id)]

init_decoder_seq_raises(example_list, h, pad_id) ==
    \E i \in 1..Len(example_list) :
        LET ex == PadDecoder(example_list, h, pad_id)[i] IN
        \/ ~RowFits(ex.dec_input, h.max_dec_steps)
        \/ ~RowFits(ex.target, h.max_dec_steps)
        \/ ex.dec_len > h.max_dec_steps                  \* padding_mask[i][j] out of bounds

init_decoder_seq_mask_padded(example_list, h, pad_id) ==
    LET n == Len(example_list)
        padded == PadDecoder(example_list, h, pad_id)
    IN [dec_batch |-> [i \in 1..h.batch_size |->
                          IF i <= n THEN AssignRow(padded[i].dec_input, h.max_dec_steps)
                          ELSE Zeros(h.max_dec_steps)],
        target_batch |-> [i \in 1..h.batch_size |->
                          IF i <= n THEN AssignRow(padded[i].target, h.max_dec_steps)
                          ELSE Zeros(h.max_dec_steps)],
        padding_mask |-> [i \in 1..h.batch_size |-> [j \in 1..h.max_dec_steps |->
                          IF i <= n /\ j <= Len(padded[i].dec_input) THEN 1 ELSE 0]]]

\* Batch.init_decoder_seq
init_decoder_seq(example_list, h, pad_id) ==
    LET n == Len(example_list)
        padded == PadDecoder(example_list, h, pad_id)
    IN [dec_batch |-> [i \in 1..h.batch_size |->
                          IF i <= n THEN AssignRow(padded[i].dec_input, h.max_dec_steps)
                          ELSE Zeros(h.max_dec_steps)],
        target_batch |-> [i \in 1..h.batch_size |->
                          IF i <= n THEN AssignRow(padded[i].target, h.max_dec_steps)
                          ELSE Zeros(h.max_dec_steps)],
        padding_mask |-> [i \in 1..h.batch_size |-> [j \in 1..h.max_dec_steps |->
                          IF i <= n /\ j <= padded[i].dec_len THEN 1 ELSE 0]]]

store_orig_strings(example_list) ==
    [original_articles |-> [i \in 1..Len(example_list) |-> example_list[i].original_article],
     original_abstracts |-> [i \in 1..Len(example_list) |-> example_list[i].original_abstract]]

\* Batch.__init__ raises
BatchRaises(example_list, h) ==
    \/ init_encoder_seq_raises(example_list, h, PAD_ID)
    \/ init_decoder_seq_raises(example_list, h, PAD_ID)

\* The Example objects once Batch.__init__ has padded them
BatchExamples(example_list, h) ==
    PadDecoder(PadEncoder(example_list, h, PAD_ID), h, PAD_ID)

\* Batch.__init__: the Batch object
BatchInit(example_list, h) ==
    LET e == init_encoder_seq(example_list, h, PAD_ID)
        d == init_decoder_seq(PadEncoder(example_list, h, PAD_ID), h, PAD_ID)
        o == store_orig_strings(example_list)
    IN [pad_id |-> PAD_ID,
        enc_batch |-> e.enc_batch, enc_lens |-> e.enc_lens,
        max_art_oovs |-> e.max_art_oovs, art_oovs |-> e.art_oovs,
        enc_batch_extend_vocab |-> e.enc_batch_extend_vocab,
        dec_batch |-> d.dec_batch, target_batch |-> d.target_batch,
        padding_mask |-> d.padding_mask,
        original_articles |-> o.original_articles,
        original_abstracts |-> o.original_abstracts]

\* value of `last` while no Batch has been built
NoBatch == [pad_id |-> PAD_ID, enc_batch |-> <<>>, enc_lens |-> <<>>,
            max_art_oovs |-> 0, art_oovs |-> <<>>, enc_batch_extend_vocab |-> <<>>,
            dec_batch |-> <<>>, target_batch |-> <<>>, padding_mask |-> <<>>,
            original_articles |-> <<>>, original_abstracts |-> <<>>]

\* =========================================================================
\* SpecUnit: Example, Batch and get_dec_inp_targ_seqs called directly
\* =========================================================================
Seqs(S, n) == UNION {[1..k -> S] : k \in 0..n}
Last(s) == s[Len(s)]

ArtStream == <<"u", "a", "w", "u", "b">>
AbsStream == <<"u", "a", "w", "x", "b">>
Cycle(stream, n) == [k \in 1..n |-> stream[((k - 1) % Len(stream)) + 1]]
UnitArticles == {Cycle(ArtStream, n) : n \in 0..(MaxEncSteps + 1)}
UnitAbstracts == {Cycle(AbsStream, n) : n \in 0..(MaxDecSteps + 1)}
RawIds == {EOS_ID, FirstWordId, vsize}

UnitHps == [mode : {"train"}, batch_size : 1..MaxBatchSize,
            max_enc_steps : {MaxEncSteps}, max_dec_steps : 1..MaxDecSteps,
            pointer_gen : BOOLEAN]

InitUnit ==
    /\ fx = <<>> /\ fy = <<>> /\ posx = 0 /\ posy = 0
    /\ hps \in UnitHps
    /\ single_pass = TRUE
    /\ batches = <<>>
    /\ pc = "unit"
    /\ last = NoBatch
    /\ yielded = <<>>
    /\ examples = <<>>
    /\ args = <<>>
    /\ ret = <<>>

CallGetDecInpTargSeqs ==
    /\ pc = "unit" /\ examples = <<>>
    /\ \E sequence \in Seqs(RawIds, MaxDecSteps + 1), max_len \in 1..MaxDecSteps :
          /\ args' = [sequence |-> sequence, max_len |-> max_len,
                      start_id |-> SOS_ID, stop_id |-> EOS_ID]
          /\ ret' = get_dec_inp_targ_seqs(sequence, max_len, SOS_ID, EOS_ID)
    /\ pc' = "returned"
    /\ UNCHANGED <<fx, fy, posx, posy, hps, single_pass, batches, last, yielded, examples>>

NewExample ==
    /\ pc = "unit" /\ Len(examples) < hps.batch_size
    /\ \E article \in UnitArticles, abstract \in UnitAbstracts :
          examples' = Append(examples, ExampleInit(article, abstract, hps))
    /\ UNCHANGED <<fx, fy, posx, posy, hps, single_pass, batches, pc, last, yielded, args, ret>>

NewBatch ==
    /\ pc = "unit"
    /\ \/ /\ BatchRaises(examples, hps)
          /\ pc' = "error"
          /\ UNCHANGED <<last, examples>>
       \/ /\ ~BatchRaises(examples, hps)
          /\ last' = BatchInit(examples, hps)
          /\ examples' = BatchExamples(examples, hps)
          /\ pc' = "built"
    /\ UNCHANGED <<fx, fy, posx, posy, hps, single_pass, batches, yielded, args, ret>>

NextUnit == CallGetDecInpTargSeqs \/ NewExample \/ NewBatch

SpecUnit == InitUnit /\ [][NextUnit]_vars

\* ------------------------------------------------------------------ C1
Truncated == Len(args.sequence) + 1 > args.max_len

C2_InputAndTargetLengths ==
    /\ pc = "returned" =>
          /\ ret.inp[1] = args.start_id
          /\ Len(ret.inp) = Min(Len(args.sequence) + 1, args.max_len)
          /\ Len(ret.inp) <= args.max_len
          /\ Len(ret.target) = Len(ret.inp)
    /\ pc = "unit" =>
          \A i \in 1..Len(examples) :
              LET ex == examples[i] IN
              /\ ex.dec_input[1] = SOS_ID
              /\ Len(ex.dec_input) = Min(Len(ex.original_abstract) + 1, hps.max_dec_steps)
              /\ Len(ex.target) = Len(ex.dec_input)
              /\ ex.dec_len = Len(ex.dec_input)

C2_Witness ==
    /\ pc = "unit" /\ hps.pointer_gen
    /\ \E i \in 1..Len(examples) :
          /\ Len(examples[i].original_abstract) + 1 > hps.max_dec_steps
          /\ \E j \in 1..Len(examples[i].target) : examples[i].target[j] >= vsize

\* ------------------------------------------------------------------ C3
ArticleLen(ex) == Min(Len(ex.original_article), hps.max_enc_steps)

\* C3: after Batch(...) on a non-empty list every example's enc_input (and
\* enc_input_extend_vocab in pointer_gen mode) has the length of the longest truncated
\* article of the batch, at most max_enc_steps; enc_lens[i] = min(number of article
\* tokens, max_enc_steps); row i of enc_batch holds the article's ids and then pad_id.
C3_EncoderPadding ==
    /\ pc = "error" => examples = <<>>
    /\ pc = "built" =>
          LET m == MaxOf({ArticleLen(examples[i]) : i \in 1..Len(examples)}) IN
          /\ m <= hps.max_enc_steps
          /\ \A i \in 1..Len(examples) :
                LET ex == examples[i] IN
                /\ Len(ex.enc_input) = m
                /\ hps.pointer_gen => Len(ex.enc_input_extend_vocab) = m
                /\ last.enc_lens[i] = ArticleLen(ex)
                /\ Len(last.enc_batch[i]) = m
                /\ \A j \in 1..m :
                      last.enc_batch[i][j] =
                          IF j <= last.enc_lens[i] THEN word2id(ex.original_article[j])
                          ELSE last.pad_id
                /\ hps.pointer_gen =>
                      /\ Len(last.enc_batch_extend_vocab[i]) = m
                      /\ \A j \in 1..m :
                            j > last.enc_lens[i]
                                => last.enc_batch_extend_vocab[i][j] = last.pad_id

C3_Witness ==
    /\ pc = "built" /\ hps.pointer_gen /\ Len(examples) >= 2
    /\ \E i, k \in 1..Len(examples) :
          /\ Len(examples[i].original_article) > hps.max_enc_steps
          /\ 0 < examples[k].enc_len /\ examples[k].enc_len < examples[i].enc_len
          /\ last.enc_batch[k][examples[i].enc_len] = last.pad_id

\* ------------------------------------------------------------------ C4
\* C4: rows of dec_batch and target_batch have length max_dec_steps, and
\* padding_mask[i][j] = 1 exactly at the positions j below the example's dec_len, which
\* hold its pre-padding decoder input and target, and 0 exactly at the padded positions.
C4_DecoderPaddingMask ==
    pc = "built" =>
        \A i \in 1..Len(examples) :
            LET fresh == ExampleInit(examples[i].original_article,
                                     examples[i].original_abstract, hps)
                dec_len == Min(Len(examples[i].original_abstract) + 1, hps.max_dec_steps)
            IN
            /\ Len(last.dec_batch[i]) = hps.max_dec_steps
            /\ Len(last.target_batch[i]) = hps.max_dec_steps
            /\ Len(last.padding_mask[i]) = hps.max_dec_steps
            /\ \A j \in 1..hps.max_dec_steps :
                  /\ last.padding_mask[i][j] \in {0, 1}
                  /\ last.padding_mask[i][j] = 1 <=> j <= dec_len
                  /\ j <= dec_len => /\ last.dec_batch[i][j] = fresh.dec_input[j]
                                     /\ last.target_batch[i][j] = fresh.target[j]
                  /\ j > dec_len => /\ last.dec_batch[i][j] = last.pad_id
                                    /\ last.target_batch[i][j] = last.pad_id

C4_Witness ==
    /\ pc = "built"
    /\ \E i \in 1..Len(examples) : \E j, k \in 1..hps.max_dec_steps :
          /\ last.padding_mask[i][j] = 1 /\ last.padding_mask[i][k] = 0
          /\ last.target_batch[i][j] = EOS_ID

\* =========================================================================
\* Spec: Batcher.pair_iter over two files
\* =========================================================================
\* sorted(inputs, key=lambda inp: inp.enc_len): a stable sort
InsertByEncLen(s, e) ==
    LET k == Cardinality({i \in 1..Len(s) : s[i].enc_len <= e.enc_len})
    IN SubSeq(s, 1, k) \o <<e>> \o SubSeq(s, k + 1, Len(s))

RECURSIVE SortedByEncLenFrom(_, _, _)
SortedByEncLenFrom(inputs, i, acc) ==
    IF i > Len(inputs) THEN acc
    ELSE SortedByEncLenFrom(inputs, i + 1, InsertByEncLen(acc, inputs[i]))

SortedByEncLen(inputs) == SortedByEncLenFrom(inputs, 1, <<>>)

\* np.random.shuffle: every permutation for lists of up to ShuffleExact elements, and
\* for longer lists the identity, the reversal, a rotation and a swap of the first two
Reverse(s) == [i \in 1..Len(s) |-> s[Len(s) + 1 - i]]
IndexPerms(n) == {p \in [1..n -> 1..n] : \A i, j \in 1..n : p[i] = p[j] => i = j}
ShuffleOutcomes(s) ==
    IF Len(s) <= ShuffleExact
    THEN {[i \in 1..Len(s) |-> s[p[i]]] : p \in IndexPerms(Len(s))}
    ELSE {s, Reverse(s), Tail(s) \o <<Head(s)>>,
          <<s[2], s[1]>> \o SubSeq(s, 3, Len(s))}

\* the read loop of refill in a mode other than decode, entered before a pair of readline()
\* calls with px and py lines consumed; a line is falsy only at the end of its file
RECURSIVE ReadLoop(_, _, _, _, _, _)
ReadLoop(fdx, fdy, px, py, h, inputs) ==
    LET morex == px < Len(fdx)
        morey == py < Len(fdy)
        px2 == IF morex THEN px + 1 ELSE px
        py2 == IF morey THEN py + 1 ELSE py
    IN IF ~(morex /\ morey) THEN [inputs |-> inputs, posx |-> px2, posy |-> py2]
       ELSE LET x == remove_nonascii(fdx[px2])
                y == remove_nonascii(fdy[py2])
            IN IF Len(x) = 0 THEN ReadLoop(fdx, fdy, px2, py2, h, inputs)
               ELSE LET inputs2 == Append(inputs, ExampleInit(x, y, h))
                    IN IF Len(inputs2) = h.batch_size * BucketFactor
                       THEN [inputs |-> inputs2, posx |-> px2, posy |-> py2]
                       ELSE ReadLoop(fdx, fdy, px2, py2, h, inputs2)

\* variant: the loop runs while either file has a line left
RECURSIVE ReadLoopEither(_, _, _, _, _, _)
ReadLoopEither(fdx, fdy, px, py, h, inputs) ==
    LET morex == px < Len(fdx)
        morey == py < Len(fdy)
        px2 == IF morex THEN px + 1 ELSE px
        py2 == IF morey THEN py + 1 ELSE py
    IN IF ~(morex \/ morey) THEN [inputs |-> inputs, posx |-> px2, posy |-> py2]
       ELSE LET x == IF morex THEN remove_nonascii(fdx[px2]) ELSE <<>>
                y == IF morey THEN remove_nonascii(fdy[py2]) ELSE <<>>
            IN IF Len(x) = 0 THEN ReadLoopEither(fdx, fdy, px2, py2, h, inputs)
               ELSE LET inputs2 == Append(inputs, ExampleInit(x, y, h))
                    IN IF Len(inputs2) = h.batch_size * BucketFactor
                       THEN [inputs |-> inputs2, posx |-> px2, posy |-> py2]
                       ELSE ReadLoopEither(fdx, fdy, px2, py2, h, inputs2)

ReadInputsEither(fdx, fdy, px, py, h) == ReadLoopEither(fdx, fdy, px, py, h, <<>>)

\* variant: the next pair of lines is read before the break at batch_size * 16 examples
ReadInputsReadsBeforeBreak(fdx, fdy, px, py, h) ==
    LET r == ReadLoop(fdx, fdy, px, py, h, <<>>) IN
    IF Len(r.inputs) = h.batch_size * BucketFactor
    THEN [r EXCEPT !.posx = IF @ < Len(fdx) THEN @ + 1 ELSE @,
                   !.posy = IF @ < Len(fdy) THEN @ + 1 ELSE @]
    ELSE r

\* refill, mode # 'decode': the examples read and the file positions afterwards
ReadInputs(fdx, fdy, px, py, h) == ReadLoop(fdx, fdy, px, py, h, <<>>)

\* refill, mode # 'decode': the lists the Batches are built from
CurBatches(inputs, h) ==
    [c \in 1..((Len(inputs) + h.batch_size - 1) \div h.batch_size) |->
        SubSeq(inputs, (c - 1) * h.batch_size + 1, Min(c * h.batch_size, Len(inputs)))]

\* refill, mode = 'decode': one pair of lines, the example repeated batch_size times
ReadDecode(fdx, fdy, px, py, h) ==
    LET morex == px < Len(fdx)
        morey == py < Len(fdy)
        px2 == IF morex THEN px + 1 ELSE px
        py2 == IF morey THEN py + 1 ELSE py
    IN [batch |-> IF morex /\ morey
                  THEN Fill(h.batch_size, ExampleInit(remove_nonascii(fdx[px2]),
                                                      remove_nonascii(fdy[py2]), h))
                  ELSE <<>>,
        posx |-> px2, posy |-> py2]

OrigPairs(b) ==
    [i \in 1..Len(b.original_articles) |-> <<b.original_articles[i], b.original_abstracts[i]>>]

\* ---- the input files
ArticleTable == << <<"a", "b", "u">>, <<"u">>, <<"e_acute", "a">>, <<"w", "a">> >>
AbstractTable == << <<"a">>, <<>>, <<"u", "e_acute", "b", "x">> >>
ArticleLine(k) == ArticleTable[((k - 1) % Len(ArticleTable)) + 1]
AbstractLine(k) == AbstractTable[((k - 1) % Len(AbstractTable)) + 1]
EmptyLine(k) == IF k % 2 = 1 THEN <<>> ELSE <<"e_acute">>
EmptyChoices(n) == {{}, {1}, {1, 2}, {n}, {BucketFactor + 1},
                    {2, BucketFactor + 1, BucketFactor + 2}}

\* files of up to ShortFile lines, and files that reach the batch_size * 16 examples of a refill
FileLengths == {n \in 0..MaxLines : n <= ShortFile \/ n >= BucketFactor - 1}

BatcherHps == [mode : {"train", "eval", "decode"}, batch_size : 1..MaxBatchSize,
               max_enc_steps : {MaxEncSteps}, max_dec_steps : {MaxDecSteps},
               pointer_gen : BOOLEAN]

Init ==
    /\ \E nx \in FileLengths, ny \in 0..(MaxLines + 1) :
          /\ ny \in {nx - 1, nx, nx + 1}
          /\ \E E \in EmptyChoices(nx) :
                fx = [k \in 1..nx |-> IF k \in E THEN EmptyLine(k) ELSE ArticleLine(k)]
          /\ fy = [k \in 1..ny |-> AbstractLine(k)]
    /\ posx = 0 /\ posy = 0
    /\ hps \in BatcherHps
    /\ single_pass \in BOOLEAN
    /\ batches = <<>>
    /\ pc = "top"
    /\ last = NoBatch
    /\ yielded = <<>>
    /\ examples = <<>>
    /\ args = <<>>
    /\ ret = <<>>

\* pair_iter line 255-256 with refill in a mode other than decode
RefillTrain ==
    /\ pc = "top" /\ Len(batches) = 0 /\ hps.mode # "decode"
    /\ LET r == ReadInputs(fx, fy, posx, posy, hps)
           inputs == IF ~single_pass THEN SortedByEncLen(r.inputs) ELSE r.inputs
           cur_batches == CurBatches(inputs, hps)
           raises == \E c \in 1..Len(cur_batches) : BatchRaises(cur_batches[c], hps)
       IN /\ posx' = r.posx
          /\ posy' = r.posy
          /\ IF raises
             THEN pc' = "error" /\ batches' = batches
             ELSE /\ pc' = "check"
                  /\ LET appended == batches \o [c \in 1..Len(cur_batches) |->
                                                    BatchInit(cur_batches[c], hps)]
                     IN IF ~single_pass THEN batches' \in ShuffleOutcomes(appended)
                        ELSE batches' = appended
    /\ UNCHANGED <<fx, fy, hps, single_pass, last, yielded, examples, args, ret>>

\* pair_iter line 255-256 with refill in decode mode
RefillDecode ==
    /\ pc = "top" /\ Len(batches) = 0 /\ hps.mode = "decode"
    /\ LET r == ReadDecode(fx, fy, posx, posy, hps) IN
          /\ posx' = r.posx
          /\ posy' = r.posy
          /\ IF BatchRaises(r.batch, hps)
             THEN pc' = "error" /\ batches' = batches
             ELSE pc' = "check" /\ batches' = Append(batches, BatchInit(r.batch, hps))
    /\ UNCHANGED <<fx, fy, hps, single_pass, last, yielded, examples, args, ret>>

\* pair_iter line 255: batches are left, no refill
NoRefill ==
    /\ pc = "top" /\ Len(batches) # 0
    /\ pc' = "check"
    /\ UNCHANGED <<fx, fy, posx, posy, hps, single_pass, batches, last, yielded,
                   examples, args, ret>>

\* pair_iter line 257-258
Break ==
    /\ pc = "check" /\ Len(batches) = 0
    /\ pc' = "done"
    /\ UNCHANGED <<fx, fy, posx, posy, hps, single_pass, batches, last, yielded,
                   examples, args, ret>>

\* pair_iter line 259-260
Yield ==
    /\ pc = "check" /\ Len(batches) # 0
    /\ last' = Head(batches)
    /\ batches' = Tail(batches)
    /\ yielded' = yielded \o OrigPairs(Head(batches))
    /\ pc' = "top"
    /\ UNCHANGED <<fx, fy, posx, posy, hps, single_pass, examples, args, ret>>

Next == RefillTrain \/ RefillDecode \/ NoRefill \/ Break \/ Yield

Spec == Init /\ [][Next]_vars

\* ---- what the files hold
Cleaned(fdx, fdy) ==
    [k \in 1..Min(Len(fdx), Len(fdy)) |-> <<remove_nonascii(fdx[k]), remove_nonascii(fdy[k])>>]
NonEmptyArticle(pair) == Len(pair[1]) # 0
\* the line pairs with a non-empty article, in file order
Expected == SelectSeq(Cleaned(fx, fy), NonEmptyArticle)
Count(s, v) == Cardinality({i \in 1..Len(s) : s[i] = v})
Range(s) == {s[i] : i \in 1..Len(s)}
IsPrefix(s, t) == Len(s) <= Len(t) /\ \A i \in 1..Len(s) : s[i] = t[i]

\* ------------------------------------------------------------------ C5
\* C5: every Batch yielded is built from exactly hps.batch_size examples.
C5_YieldedBatchIsFull ==
    Len(yielded) > 0 => Len(last.original_articles) = hps.batch_size

\* ------------------------------------------------------------------ C6
\* C6: in every mode pair_iter over line-aligned files ends normally, without raising an error and without
\* building a Batch from an empty example list.
C6_NeverRaises == Len(fx) = Len(fy) => pc # "error"

\* ------------------------------------------------------------------ C7
\* C7: with single_pass = False pair_iter over a dataset that holds an example never ends.
C7_EndlessUnlessSinglePass == (~single_pass /\ Len(Expected) > 0) => pc # "done"

C9_MismatchNeverEndsNormally == Len(fx) # Len(fy) => pc # "done"

\* C9 amended: in a mode other than decode, with different numbers of lines, pair_iter
\* raises nothing and, when it has ended, has yielded the pairs with a non-empty
\* article among the lines both files have; the surplus lines are dropped.
C9_MismatchEndsNormally ==
    (hps.mode # "decode" /\ Len(fx) # Len(fy)) =>
        /\ pc # "error"
        /\ pc = "done" =>
              /\ Len(yielded) = Len(Expected)
              /\ \A p \in Range(Expected) : Count(yielded, p) = Count(Expected, p)
              /\ posx >= Min(Len(fx), Len(fy)) /\ posy >= Min(Len(fx), Len(fy))

C9_Witness ==
    /\ hps.mode # "decode" /\ Len(fx) > Len(fy)
    /\ pc = "done"
    /\ Len(yielded) > 0
    /\ NonEmptyArticle(<<remove_nonascii(fx[Len(fx)])>>)

\* =========================================================================
\* SpecScatter: _scatter_nd of test.py
\* =========================================================================
\* tf.reshape(m, [-1]) of a matrix, row-major
RECURSIVE Flatten(_)
Flatten(m) == IF Len(m) = 0 THEN <<>> ELSE Head(m) \o Flatten(Tail(m))

\* tf.reshape(flat, [rows, cols])
Reshape2(flat, rows, cols) ==
    [b \in 1..rows |-> [v \in 1..cols |-> flat[(b - 1) * cols + v]]]

\* tf.dynamic_stitch: merged[indices[m][i]] = data[m][i], applied in order, so that of
\* two values stitched to one index the later one is what the result holds
RECURSIVE StitchList(_, _, _, _)
StitchList(merged, idx, dat, i) ==
    IF i > Len(idx) THEN merged
    ELSE StitchList([merged EXCEPT ![idx[i] + 1] = dat[i]], idx, dat, i + 1)

RECURSIVE StitchFrom(_, _, _, _)
StitchFrom(merged, indices, data, m) ==
    IF m > Len(indices) THEN merged
    ELSE StitchFrom(StitchList(merged, indices[m], data[m], 1), indices, data, m + 1)

dynamic_stitch(indices, data) ==
    LET all == UNION {Range(indices[m]) : m \in 1..Len(indices)}
        size == IF all = {} THEN 0 ELSE MaxOf(all) + 1
    IN StitchFrom(Zeros(size), indices, data, 1)

_scatter_nd(enc_batch, batch_size, batch_nums, extended_vsize, copy_dist) ==
    LET copy_prob == Zeros(batch_size * extended_vsize)
        fb == Flatten(batch_nums)
        fe == Flatten(enc_batch)
        linear_indices == [i \in 1..Len(fb) |-> fb[i] * extended_vsize + fe[i]]
        flat_w_copy == Flatten(copy_dist)
        unchanged_indices == [i \in 1..Len(copy_prob) |-> i - 1]
        flat_vocab_prob == dynamic_stitch(<<unchanged_indices, linear_indices>>,
                                          <<copy_prob, flat_w_copy>>)
    IN Reshape2(flat_vocab_prob, batch_size, extended_vsize)

\* copy distributions: every position weighs 1, position t weighs t, or t of row b weighs b + t
CopyDists(B, T) == {[b \in 1..B |-> [t \in 1..T |-> 1]], [b \in 1..B |-> [t \in 1..T |-> t]],
                    [b \in 1..B |-> [t \in 1..T |-> b + t]]}

InitScatter ==
    /\ fx = <<>> /\ fy = <<>> /\ posx = 0 /\ posy = 0
    /\ hps = [mode |-> "train", batch_size |-> 1, max_enc_steps |-> MaxEncSteps,
              max_dec_steps |-> MaxDecSteps, pointer_gen |-> TRUE]
    /\ single_pass = TRUE
    /\ batches = <<>>
    /\ pc = "scatter"
    /\ last = NoBatch
    /\ yielded = <<>>
    /\ examples = <<>>
    /\ \E B \in 1..MaxBatchSize, T \in 1..MaxEncSteps, V \in 1..MaxVsize :
          \E enc_batch \in [1..B -> [1..T -> 0..(V - 1)]], copy_dist \in CopyDists(B, T) :
              args = [enc_batch |-> enc_batch, batch_size |-> B,
                      batch_nums |-> [b \in 1..B |-> [t \in 1..T |-> b - 1]],
                      extended_vsize |-> V, copy_dist |-> copy_dist]
    /\ ret = <<>>

CallScatterNd ==
    /\ pc = "scatter"
    /\ ret' = _scatter_nd(args.enc_batch, args.batch_size, args.batch_nums,
                          args.extended_vsize, args.copy_dist)
    /\ pc' = "scattered"
    /\ UNCHANGED <<fx, fy, posx, posy, hps, single_pass, batches, last, yielded,
                   examples, args>>

NextScatter == CallScatterNd

SpecScatter == InitScatter /\ [][NextScatter]_vars

RECURSIVE SumAt(_, _, _)
SumAt(ids, weights, v) ==
    IF Len(ids) = 0 THEN 0
    ELSE (IF Head(ids) = v THEN Head(weights) ELSE 0) + SumAt(Tail(ids), Tail(weights), v)

\* ------------------------------------------------------------------ C10
\* C10: the result has shape [batch_size, extended_vsize] and entry (b, v) is the sum of
\* copy_dist[b][t] over the positions t with enc_batch[b][t] = v.
C10_ScatterSumsCopyDist ==
    pc = "scattered" =>
        /\ Len(ret) = args.batch_size
        /\ \A b \in 1..args.batch_size :
              /\ Len(ret[b]) = args.extended_vsize
              /\ \A v \in 1..args.extended_vsize :
                    ret[b][v] = SumAt(args.enc_batch[b], args.copy_dist[b], v - 1)

====
